---- MODULE Spec2Model ----
(***************************************************************************)
(* Memory Mirror (streamlit_app.py): the per-user journal file, the        *)
(* Save & Analyze flow of the "New Entry" page run by concurrent browser   *)
(* sessions of one user, and the computations of the "Insights" page.      *)
(*                                                                         *)
(* Every browser interaction re-runs the script top to bottom in the       *)
(* session's own thread: the model is loaded (line 47), the journal file   *)
(* is read (line 90), the page is rendered and the button handler runs.    *)
(* Sessions are logged in as the same e-mail, so they share one file.      *)
(***************************************************************************)
EXTENDS Integers, Sequences, FiniteSets, TLC

(* ---------------------------- bounds ----------------------------------- *)
MaxClock == 1            \* last clock tick explored
TicksPerDay == 2         \* clock ticks (minutes of "%H:%M") in a calendar day
MaxEntries == 2          \* saves are explored while the loaded list is shorter
MaxInsightEntries == 4   \* longest journal rendered by the Insights page

(* ------------------------ program constants ---------------------------- *)
MinWords == 10           \* line 114: len(journal.split()) < 10

Sessions == {"s1", "s2"}
\* line 37: the labels of the SST-2 pipeline; lines 150-152: the labels the
\* Insights page counts in the journal it is given
ModelLabels == {"POSITIVE", "NEGATIVE"}
Labels == ModelLabels \cup {"NEUTRAL"}

\* The journal file: absent (os.path.exists is False), a JSON list, or
\* opened with "w" and never completely written.
NoFile == [kind |-> "absent", list |-> <<>>]
Truncated == [kind |-> "truncated", list |-> <<>>]
Json(es) == [kind |-> "json", list |-> es]
None == "None"

VARIABLES
  clock,            \* datetime.now(), in ticks
  file,             \* content of <sha256(email)>.json
  modelCalls,       \* texts handed to sentiment_model(...) at line 118
  pc,               \* position of each session's script run
  sentiment_model,  \* per run: TRUE = pipeline, FALSE = None (line 47)
  entries,          \* per run: the list bound at line 90
  journal,          \* per run: content of the text area when Save was clicked
  new_entry,        \* per run: the dict built at lines 119-123
  msg,              \* per run: the status element the page shows
  ai_summary,       \* Insights page: the narrative of line 185
  streak            \* Insights page: the streak of lines 197-205

vars == <<clock, file, modelCalls, pc, sentiment_model, entries, journal,
          new_entry, msg, ai_summary, streak>>

(* ------------------------------ text ----------------------------------- *)
\* A text is a run of words separated by single blanks, optionally with
\* surrounding whitespace: str.split() counts the words, str.strip() removes
\* the surrounding whitespace and is falsy exactly when there is no word.
\* The texts typed: "", "  ", and texts of MinWords-1 and of MinWords words
\* typed with surrounding whitespace.
Texts ==
  {[words |-> 0, pad |-> FALSE], [words |-> 0, pad |-> TRUE],
   [words |-> MinWords - 1, pad |-> TRUE], [words |-> MinWords, pad |-> TRUE]}

Split(t) == t.words
Strip(t) == [t EXCEPT !.pad = FALSE]
Truthy(t) == t.words > 0 \/ t.pad

\* variant of the length test: the limit off by one
TooShortLax(t) == Split(t) < MinWords - 1
TooShort(t) == Split(t) < MinWords

(* ------------------------------ dates ---------------------------------- *)
\* strftime("%Y-%m-%d %H:%M") of the clock, and strptime(...).date() of it
Strftime(now) == [day |-> now \div TicksPerDay, hm |-> now % TicksPerDay]
DateOf(d) == d.day
DaysBetween(d1, d2) == DateOf(d2) - DateOf(d1)

(* ------------------------------ store ---------------------------------- *)
load_entries(f) == IF f.kind = "absent" THEN <<>> ELSE f.list

NewEntry(now, text, label) ==
  [date |-> Strftime(now), text |-> text, sentiment |-> label]

\* variant of the append: the new entry put first
PrependEntry(es, e) == <<e>> \o es
AppendEntry(es, e) == Append(es, e)

(* ---------------------------- the script ------------------------------- *)
Tick ==
  /\ clock < MaxClock
  /\ clock' = clock + 1
  /\ UNCHANGED <<file, modelCalls, pc, sentiment_model, entries, journal,
                 new_entry, msg, ai_summary, streak>>

\* lines 47-90: the model is loaded, the journal file is read.  json.load of
\* a truncated file raises and the run ends there.
RunScript(s) ==
  /\ pc[s] = "idle"
  /\ journal' = [journal EXCEPT ![s] = None]
  /\ new_entry' = [new_entry EXCEPT ![s] = None]
  /\ ai_summary' = [ai_summary EXCEPT ![s] = None]
  /\ streak' = [streak EXCEPT ![s] = 0]
  /\ IF file = Truncated
       THEN /\ msg' = [msg EXCEPT ![s] = "JSONDecodeError"]
            /\ entries' = [entries EXCEPT ![s] = <<>>]
            /\ pc' = pc
            /\ sentiment_model' = [sentiment_model EXCEPT ![s] = FALSE]
       ELSE /\ msg' = [msg EXCEPT ![s] = None]
            /\ entries' = [entries EXCEPT ![s] = load_entries(file)]
            /\ pc' = [pc EXCEPT ![s] = "page"]
            /\ \E ok \in BOOLEAN :
                 sentiment_model' = [sentiment_model EXCEPT ![s] = ok]
  /\ UNCHANGED <<clock, file, modelCalls>>

\* the run ends: the page shows m, the script's names go out of scope
Finish(s, m) ==
  /\ pc' = [pc EXCEPT ![s] = "idle"]
  /\ msg' = [msg EXCEPT ![s] = m]
  /\ sentiment_model' = [sentiment_model EXCEPT ![s] = FALSE]
  /\ entries' = [entries EXCEPT ![s] = <<>>]
  /\ journal' = [journal EXCEPT ![s] = None]
  /\ new_entry' = [new_entry EXCEPT ![s] = None]

\* lines 135-141, 207-233: pages that only read the loaded list
ViewPage(s) ==
  /\ pc[s] = "page"
  /\ Finish(s, "page")
  /\ UNCHANGED <<clock, file, modelCalls, ai_summary, streak>>

\* line 133
RejectEmpty(s, text) ==
  /\ ~Truthy(Strip(text))
  /\ Finish(s, "Please write something.")
  /\ UNCHANGED <<file, modelCalls>>

\* line 115
RejectShort(s, text) ==
  /\ Truthy(Strip(text))
  /\ TooShort(text)
  /\ Finish(s, "Journal is too short.")
  /\ UNCHANGED <<file, modelCalls>>

\* line 131
ModelUnavailable(s, text) ==
  /\ Truthy(Strip(text))
  /\ ~TooShort(text)
  /\ ~sentiment_model[s]
  /\ Finish(s, "AI model not available.")
  /\ UNCHANGED <<file, modelCalls>>

\* variant of the failure policy: the entry is stored with an UNKNOWN label
AnalysisFailedDegraded(s, text) ==
  /\ Truthy(Strip(text))
  /\ ~TooShort(text)
  /\ sentiment_model[s]
  /\ modelCalls' = modelCalls \cup {Strip(text)}
  /\ file' = Json(AppendEntry(entries[s], NewEntry(clock, text, "UNKNOWN")))
  /\ Finish(s, "Entry saved!")

\* lines 118, 128-129: the model call raises
AnalysisFailed(s, text) ==
  /\ Truthy(Strip(text))
  /\ ~TooShort(text)
  /\ sentiment_model[s]
  /\ modelCalls' = modelCalls \cup {Strip(text)}
  /\ Finish(s, "AI analysis failed")
  /\ UNCHANGED file

\* lines 118-124: the model call returns a label; the entry is stamped and
\* appended to the loaded list
Analyzed(s, text) ==
  /\ Truthy(Strip(text))
  /\ ~TooShort(text)
  /\ sentiment_model[s]
  /\ modelCalls' = modelCalls \cup {Strip(text)}
  /\ \E label \in ModelLabels :
       new_entry' = [new_entry EXCEPT ![s] = NewEntry(clock, text, label)]
  /\ entries' = [entries EXCEPT ![s] = AppendEntry(entries[s], new_entry'[s])]
  /\ journal' = [journal EXCEPT ![s] = text]
  /\ pc' = [pc EXCEPT ![s] = "saving"]
  /\ UNCHANGED <<file, msg, sentiment_model>>

\* lines 112-133, up to the call of save_entries
SaveAndAnalyze(s) ==
  /\ pc[s] = "page"
  /\ Len(entries[s]) < MaxEntries
  /\ \E text \in Texts :
       /\ \/ RejectEmpty(s, text)
          \/ RejectShort(s, text)
          \/ ModelUnavailable(s, text)
          \/ AnalysisFailed(s, text)
          \/ Analyzed(s, text)
  /\ UNCHANGED <<clock, ai_summary, streak>>

\* line 33 completes, lines 126-127
Saved(s) ==
  /\ file' = Json(entries[s])
  /\ Finish(s, "Entry saved!")

\* line 33: open(file, "w") raises, nothing is written; line 129
OpenFails(s) ==
  /\ file' = file
  /\ Finish(s, "AI analysis failed")

\* line 33: open(file, "w") has truncated the file, a write during json.dump
\* raises (journal larger than the write buffer); line 129
DumpFails(s) ==
  /\ file' = Truncated
  /\ Finish(s, "AI analysis failed")

\* line 33: the file object is never closed by the code; what is still in
\* its write buffer (the whole of a small journal) reaches the disk only when
\* the object is finalized on return, where a write error is discarded;
\* lines 126-127 then run
FlushFails(s) ==
  /\ file' = Truncated
  /\ Finish(s, "Entry saved!")

\* lines 125-129
SaveEntries(s) ==
  /\ pc[s] = "saving"
  /\ \/ Saved(s)
     \/ OpenFails(s)
     \/ DumpFails(s)
     \/ FlushFails(s)
  /\ UNCHANGED <<clock, modelCalls, ai_summary, streak>>

Init ==
  /\ clock = 0
  /\ file = NoFile
  /\ modelCalls = {}
  /\ pc = [s \in Sessions |-> "idle"]
  /\ sentiment_model = [s \in Sessions |-> FALSE]
  /\ entries = [s \in Sessions |-> <<>>]
  /\ journal = [s \in Sessions |-> None]
  /\ new_entry = [s \in Sessions |-> None]
  /\ msg = [s \in Sessions |-> None]
  /\ ai_summary = [s \in Sessions |-> None]
  /\ streak = [s \in Sessions |-> 0]

Next ==
  \/ Tick
  \/ \E s \in Sessions : RunScript(s)
  \/ \E s \in Sessions : ViewPage(s)
  \/ \E s \in Sessions : SaveAndAnalyze(s)
  \/ \E s \in Sessions : SaveEntries(s)

Spec == Init /\ [][Next]_vars

(* ------------------------- the Insights page --------------------------- *)
\* lines 150-152: sentiments.count(label)
Count(es, label) == Cardinality({i \in DOMAIN es : es[i].sentiment = label})

\* lines 157-183: the four pools of narratives
PoolUplifting == {"uplifting 1", "uplifting 2", "uplifting 3", "uplifting 4"}
PoolStruggling == {"struggling 1", "struggling 2", "struggling 3", "struggling 4"}
PoolSteady == {"steady 1", "steady 2", "steady 3", "steady 4"}
PoolMixed == {"mixed 1", "mixed 2", "mixed 3", "mixed 4"}

\* variant of the selection: ties resolved by the order of the branches
InsightOptionsTies(pos, neg, neu) ==
  IF pos >= neg /\ pos >= neu THEN PoolUplifting
  ELSE IF neg >= pos /\ neg >= neu THEN PoolStruggling
  ELSE IF neu >= pos /\ neu >= neg THEN PoolSteady
  ELSE PoolMixed

\* lines 156-183
InsightOptions(pos, neg, neu) ==
  IF pos > neg /\ pos > neu THEN PoolUplifting
  ELSE IF neg > pos /\ neg > neu THEN PoolStruggling
  ELSE IF neu > pos /\ neu > neg THEN PoolSteady
  ELSE PoolMixed

\* lines 198-204: i runs from len(entries) - 2 down to 0; here the list is
\* indexed from 1, so the pair compared is es[i], es[i+1] for i = Len-1 .. 1
RECURSIVE StreakLoop(_, _, _)
StreakLoop(es, i, n) ==
  IF i < 1 THEN n
  ELSE IF DaysBetween(es[i].date, es[i + 1].date) = 1
         THEN StreakLoop(es, i - 1, n + 1)
         ELSE n

\* variant of the walk: no break, every adjacent one-day pair is counted
StreakNoBreak(es) ==
  1 + Cardinality({i \in 1..(Len(es) - 1) :
                     DaysBetween(es[i].date, es[i + 1].date) = 1})

\* lines 197-204
Streak(es) == StreakLoop(es, Len(es) - 1, 1)

\* lines 144-205, with lines 145-188 read at the indentation of the page
\* branch they belong to: the summary (or the "add a few more entries" note),
\* then the streak (or the "write more entries" note; 0 = no streak shown)
InsightsPage(s) ==
  /\ pc[s] = "page"
  /\ IF entries[s] # <<>>
       THEN \E text \in InsightOptions(Count(entries[s], "POSITIVE"),
                                       Count(entries[s], "NEGATIVE"),
                                       Count(entries[s], "NEUTRAL")) :
              ai_summary' = [ai_summary EXCEPT ![s] = text]
       ELSE ai_summary' = [ai_summary EXCEPT ![s] = None]
  /\ streak' = [streak EXCEPT ![s] =
                  IF Len(entries[s]) < 2 THEN 0 ELSE Streak(entries[s])]
  /\ pc' = [pc EXCEPT ![s] = "idle"]
  /\ msg' = [msg EXCEPT ![s] = "insights"]
  /\ UNCHANGED <<clock, file, modelCalls, sentiment_model, entries, journal,
                 new_entry>>

\* The journals the page is rendered on: up to MaxInsightEntries entries whose
\* stamps are the running sums of non-negative gaps (the stored list is in
\* stamp order): the same minute, the next minute, a day later, two days
\* later; with any of the labels the page counts.
Gaps == {0, 1, TicksPerDay, 2 * TicksPerDay}

RECURSIVE StampAt(_, _)
StampAt(gaps, i) == IF i = 0 THEN 0 ELSE StampAt(gaps, i - 1) + gaps[i]

SampleText == [words |-> MinWords, pad |-> TRUE]

JournalOf(gaps, labels) ==
  [i \in DOMAIN gaps |-> NewEntry(StampAt(gaps, i), SampleText, labels[i])]

\* session s1 has loaded such a journal (line 90) and selected the page
InitInsights ==
  /\ modelCalls = {}
  /\ pc = [s \in Sessions |-> IF s = "s1" THEN "page" ELSE "idle"]
  /\ sentiment_model = [s \in Sessions |-> FALSE]
  /\ \E n \in 0..MaxInsightEntries :
       \E gaps \in [1..n -> Gaps], labels \in [1..n -> Labels] :
         /\ clock = StampAt(gaps, n)
         /\ file = IF n = 0 THEN NoFile ELSE Json(JournalOf(gaps, labels))
         /\ entries = [s \in Sessions |->
                         IF s = "s1" THEN JournalOf(gaps, labels) ELSE <<>>]
  /\ journal = [s \in Sessions |-> None]
  /\ new_entry = [s \in Sessions |-> None]
  /\ msg = [s \in Sessions |-> None]
  /\ ai_summary = [s \in Sessions |-> None]
  /\ streak = [s \in Sessions |-> 0]

NextInsights == \E s \in Sessions : InsightsPage(s)

SpecInsights == InitInsights /\ [][NextInsights]_vars

(* ---------------------- most_similar (section 4.3) --------------------- *)
Threshold == 70          \* default threshold 0.70, in hundredths

\* Cosine similarity of the embeddings of two texts, in hundredths: 100 for
\* identical text, falling with the difference in length.
Similarity(a, b) ==
  LET d == IF Split(a) >= Split(b) THEN Split(a) - Split(b)
                                   ELSE Split(b) - Split(a)
  IN  IF Strip(a) = Strip(b) THEN 100 ELSE IF d >= 2 THEN 20 ELSE 60

\* most-recent-first scan, first entry above the threshold, 0 for none
RECURSIVE MostSimilarFrom(_, _, _, _)
MostSimilarFrom(query, corpus, threshold, i) ==
  IF i < 1 THEN 0
  ELSE IF Similarity(query, corpus[i].text) > threshold THEN i
  ELSE MostSimilarFrom(query, corpus, threshold, i - 1)

MostSimilar(query, corpus, threshold) ==
  MostSimilarFrom(query, corpus, threshold, Len(corpus))

\* lines 116-127: the handler shows the success note and the sentiment; it
\* computes no similarity and surfaces no prior entry (0 = none)
Reflection(corpus, text) == 0

(* ------------------------------ claims --------------------------------- *)
\* the entry list a reader of the file gets
Stored(f) == f.list

IsPrefix(a, b) == Len(a) <= Len(b) /\ SubSeq(b, 1, Len(a)) = a

OnePerDay(es) ==
  \A i, j \in DOMAIN es : i # j => DateOf(es[i].date) # DateOf(es[j].date)

\* the last k entries are on consecutive calendar days
ConsecutiveSuffix(es, k) ==
  \A j \in (Len(es) - k + 1)..(Len(es) - 1) :
    DateOf(es[j + 1].date) = DateOf(es[j].date) + 1

LongestConsecutiveSuffix(es) ==
  CHOOSE k \in 1..Len(es) :
    /\ ConsecutiveSuffix(es, k)
    /\ \A m \in (k + 1)..Len(es) : ~ConsecutiveSuffix(es, m)

\* C1: on a chronological journal with at most one entry per calendar day,
\* the streak the Insights page shows is the length of the longest suffix of
\* entries on consecutive calendar days.
C1_StreakIsLongestSuffix ==
  \A s \in Sessions :
    (msg[s] = "insights" /\ Len(entries[s]) >= 2 /\ OnePerDay(entries[s]))
      => streak[s] = LongestConsecutiveSuffix(entries[s])

\* a run of consecutive days ended by a gap further back
C1_Witness ==
  \E s \in Sessions :
    /\ msg[s] = "insights"
    /\ Len(entries[s]) >= 3
    /\ OnePerDay(entries[s])
    /\ streak[s] = 2

DaysWithEntry(es) == {DateOf(es[i].date) : i \in DOMAIN es}

\* consecutive calendar days with at least one entry, back from the last day
DayStreak(es) ==
  LET last == DateOf(es[Len(es)].date)
  IN  CHOOSE k \in 1..Len(es) :
        /\ \A d \in 0..(k - 1) : (last - d) \in DaysWithEntry(es)
        /\ (last - k) \notin DaysWithEntry(es)

\* C2: the streak shown equals the number of consecutive calendar days with
\* at least one entry, counted back from the most recent entry's day, so
\* same-day entries neither extend nor break it.
C2_StreakCountsDays ==
  \A s \in Sessions :
    (msg[s] = "insights" /\ Len(entries[s]) >= 2)
      => streak[s] = DayStreak(entries[s])

Pools == {PoolUplifting, PoolStruggling, PoolSteady, PoolMixed}

\* C3: whenever the summary is computed exactly one pool is selected, the
\* narrative shown is drawn from it, and the pool is UPLIFTING iff pos is
\* strictly greatest, STRUGGLING iff neg is, STEADY iff neu is, MIXED iff no
\* count is strictly greater than both others.
C3_TrendByStrictPlurality ==
  \A s \in Sessions :
    (msg[s] = "insights" /\ entries[s] # <<>>) =>
      LET pos == Count(entries[s], "POSITIVE")
          neg == Count(entries[s], "NEGATIVE")
          neu == Count(entries[s], "NEUTRAL")
          a == ai_summary[s]
      IN  /\ Cardinality({P \in Pools : a \in P}) = 1
          /\ a \in PoolUplifting <=> (pos > neg /\ pos > neu)
          /\ a \in PoolStruggling <=> (neg > pos /\ neg > neu)
          /\ a \in PoolSteady <=> (neu > pos /\ neu > neg)
          /\ a \in PoolMixed <=> ~ \/ (pos > neg /\ pos > neu)
                                    \/ (neg > pos /\ neg > neu)
                                    \/ (neu > pos /\ neu > neg)

\* a two-way tie for the greatest count
C3_Witness ==
  \E s \in Sessions :
    /\ msg[s] = "insights"
    /\ Count(entries[s], "POSITIVE") = Count(entries[s], "NEGATIVE")
    /\ Count(entries[s], "POSITIVE") > Count(entries[s], "NEUTRAL")
    /\ ai_summary[s] \in PoolMixed

C4_LongEnough ==
  /\ \A t \in modelCalls : Split(t) >= MinWords
  /\ \A i \in DOMAIN Stored(file) : Split(Stored(file)[i].text) >= MinWords

C5_JournalOnlyGrows ==
  [][/\ IsPrefix(Stored(file), Stored(file'))
     /\ Len(Stored(file')) <= Len(Stored(file)) + 1]_vars

\* C6: a save that reports success and has written its list keeps every
\* entry that an earlier successful save had put into the file.
C6_NoAcknowledgedEntryLost ==
  [][\A s \in Sessions :
       (pc[s] = "saving" /\ msg'[s] = "Entry saved!" /\ file'.kind = "json")
         => \A i \in DOMAIN Stored(file) :
              \E j \in DOMAIN Stored(file') :
                Stored(file')[j] = Stored(file)[i]]_vars

C7_FullyAnnotated ==
  \A i \in DOMAIN Stored(file) :
    LET e == Stored(file)[i]
    IN  /\ DOMAIN e = {"date", "text", "sentiment"}
        /\ e.sentiment \in ModelLabels

\* C7: every stored entry carries date, text and a label the model returned;
\* a run that ends before save_entries is reached (validation, model None,
\* model call raised) leaves the file unchanged and shows a warning or an
\* error, never the success note.
C7_FailureSurfaced ==
  /\ []C7_FullyAnnotated
  /\ [][\A s \in Sessions :
          (pc[s] = "page" /\ pc'[s] = "idle")
            => /\ file' = file
               /\ msg'[s] \in {"Please write something.",
                               "Journal is too short.",
                               "AI model not available.",
                               "AI analysis failed", "page"}]_vars

C7_Witness ==
  \E s, t \in Sessions :
    /\ msg[s] = "AI analysis failed"
    /\ msg[t] = "AI model not available."
    /\ Stored(file) # <<>>

\* d1 is not later than d2
Before(d1, d2) == d1.day < d2.day \/ (d1.day = d2.day /\ d1.hm <= d2.hm)

\* C8: the stored entries are in non-decreasing date order.
C8_Chronological ==
  \A i, j \in DOMAIN Stored(file) :
    i < j => Before(Stored(file)[i].date, Stored(file)[j].date)

\* a session about to write an entry stamped before the last stored one
C8_Witness ==
  \E s \in Sessions :
    /\ pc[s] = "saving"
    /\ Stored(file) # <<>>
    /\ ~Before(Stored(file)[Len(Stored(file))].date, new_entry[s].date)

\* C9: the run that called save_entries ends either with the success note
\* and the file holding the loaded list with the new entry last, or with an
\* error shown.
C9_SaveOutcomeShown ==
  [][\A s \in Sessions :
       (pc[s] = "saving" /\ pc'[s] = "idle")
         => \/ /\ msg'[s] = "Entry saved!"
               /\ file' = Json(entries[s])
               /\ Len(Stored(file')) > 0
               /\ Stored(file')[Len(Stored(file'))] = new_entry[s]
            \/ /\ msg'[s] = "AI analysis failed"
               /\ file' \in {file, Truncated}]_vars

\* C10: a successful save surfaces the most recent prior entry whose
\* similarity to the new text exceeds the threshold, none if there is none.
C10_MostSimilarSurfaced ==
  [][\A s \in Sessions :
       (pc[s] = "saving" /\ msg'[s] = "Entry saved!")
         => LET prior == SubSeq(entries[s], 1, Len(entries[s]) - 1)
            IN  Reflection(prior, new_entry[s].text)
                  = MostSimilar(new_entry[s].text, prior, Threshold)]_vars

====
